---- MODULE Spec2Model ----
(***************************************************************************)
(* Model of aurras/dataset/dataset.py: class Dataset.                      *)
(*                                                                         *)
(* A Python str is a sequence of one-character strings, a list or a tuple  *)
(* is a sequence, and a dict is a sequence of <<key, value>> pairs in      *)
(* insertion order (Python dicts iterate in insertion order, and storing   *)
(* under a key that is already present keeps the key's position).          *)
(***************************************************************************)
EXTENDS Integers, Sequences, FiniteSets, TLC

VARIABLES
    dir_exists,          \* os.path.isdir(self.dataset_path)
    entity_files,        \* what glob finds under */entities/*.entity, in glob order
    intent_files,        \* what glob finds under */intents/*.intent, in glob order
    samples_per_intent,  \* self.samples_per_intent
    duplicates,          \* self.duplicates
    entities,            \* self.entities
    entities_label,      \* self.entities_label
    intents,             \* self.intents
    intents_label,       \* self.intents_label
    filled_prompts,      \* self.filled_prompts
    premutated_prompts,  \* self.premutated_prompts
    generated_prompts,   \* self.generated_prompts
    dataset,             \* self.dataset
    stdout,              \* what print() has written so far
    written,             \* the files save() has written
    raised,              \* the exception that ended the run, or "none"
    pc,                  \* the driver's position: "new", "loaded", "saved"
    calls                \* completed calls of genrate_dataset

vars == <<dir_exists, entity_files, intent_files, samples_per_intent, duplicates,
          entities, entities_label, intents, intents_label, filled_prompts,
          premutated_prompts, generated_prompts, dataset, stdout, written,
          raised, pc, calls>>

(***************************************************************************)
(* Bounds of the model.                                                    *)
(***************************************************************************)
MaxEntityFiles == 2
MaxIntentFiles == 2
MaxSamples == 2
MaxCalls == 2

(***************************************************************************)
(* Python str operations.                                                  *)
(***************************************************************************)
Whitespace == {" ", "\n"}

\* str.lower(): of the letters used here only "A" has a lower-case form
Lower(s) == [i \in 1..Len(s) |-> IF s[i] = "A" THEN "a" ELSE s[i]]

RECURSIVE LStrip(_)
LStrip(s) ==
    IF s # <<>> /\ Head(s) \in Whitespace THEN LStrip(Tail(s)) ELSE s

RECURSIVE RStrip(_)
RStrip(s) ==
    IF s # <<>> /\ s[Len(s)] \in Whitespace
    THEN RStrip(SubSeq(s, 1, Len(s) - 1))
    ELSE s

\* str.strip()
Strip(s) == RStrip(LStrip(s))

\* str.startswith(c) and str.endswith(c) for a one-character c
StartsWith(s, c) == s # <<>> /\ s[1] = c
EndsWith(s, c) == s # <<>> /\ s[Len(s)] = c

\* s[1:-1]
Inner(s) == SubSeq(s, 2, Len(s) - 1)

\* str.split() with no separator: the maximal runs of non-whitespace characters.
\* cur is the run being read, acc the runs already closed.
RECURSIVE SplitFrom(_, _, _)
SplitFrom(s, cur, acc) ==
    IF s = <<>>
    THEN IF cur = <<>> THEN acc ELSE Append(acc, cur)
    ELSE IF Head(s) \in Whitespace
         THEN SplitFrom(Tail(s), <<>>, IF cur = <<>> THEN acc ELSE Append(acc, cur))
         ELSE SplitFrom(Tail(s), Append(cur, Head(s)), acc)

Split(s) == SplitFrom(s, <<>>, <<>>)

\* " ".join(words)
RECURSIVE Join(_)
Join(words) ==
    IF words = <<>> THEN <<>>
    ELSE IF Len(words) = 1 THEN words[1]
    ELSE words[1] \o <<" ">> \o Join(Tail(words))

(***************************************************************************)
(* Python dict operations on the sequence-of-pairs representation.         *)
(***************************************************************************)
DictKeys(d) == [i \in 1..Len(d) |-> d[i][1]]
DictValues(d) == [i \in 1..Len(d) |-> d[i][2]]
DictHas(d, k) == \E i \in 1..Len(d) : d[i][1] = k
DictGet(d, k) == d[CHOOSE i \in 1..Len(d) : d[i][1] = k][2]

\* d[k] = v
DictSet(d, k, v) ==
    IF DictHas(d, k)
    THEN [i \in 1..Len(d) |-> IF d[i][1] = k THEN <<k, v>> ELSE d[i]]
    ELSE Append(d, <<k, v>>)

\* list.index(x), 0-based
IndexOf(list, x) == (CHOOSE i \in 1..Len(list) : list[i] = x /\ \A j \in 1..(i - 1) : list[j] # x) - 1

\* the concatenation of a sequence of sequences
RECURSIVE Flatten(_)
Flatten(ss) == IF ss = <<>> THEN <<>> ELSE Head(ss) \o Flatten(Tail(ss))

(***************************************************************************)
(* Dataset._load_raw and Dataset._generate_mapping.                        *)
(* A file is [stem |-> Path(file).stem, lines |-> f.readlines()].          *)
(***************************************************************************)
\* the samples list built from one file's lines
RECURSIVE ReadSamples(_, _, _)
ReadSamples(lines, assign_ids, start_id) ==
    IF lines = <<>> THEN <<>>
    ELSE LET line == Head(lines)
             rest == ReadSamples(Tail(lines), assign_ids, start_id)
         IN  IF StartsWith(line, "#") THEN rest
             ELSE IF assign_ids
                  THEN <<<<Strip(Lower(line)), start_id>>>> \o rest
                  ELSE <<Strip(Lower(line))>> \o rest

\* the loop over files_path: start_id grows by one per file, data[name] = samples
RECURSIVE LoadRawFrom(_, _, _, _)
LoadRawFrom(files, assign_ids, start_id, data) ==
    IF files = <<>> THEN data
    ELSE LoadRawFrom(Tail(files), assign_ids, start_id + 1,
                     DictSet(data, Head(files).stem,
                             ReadSamples(Head(files).lines, assign_ids, start_id)))

LoadRaw(files, assign_ids) == LoadRawFrom(files, assign_ids, 1, <<>>)

\* labels[counter] = item for the keys of data, counter from start_at
GenerateMapping(data, start_at) ==
    [i \in 1..Len(data) |-> <<start_at + i - 1, data[i][1]>>]

(***************************************************************************)
(* Dataset._slot_filling.                                                  *)
(***************************************************************************)
\* a word of the form {name}
IsPlaceholder(word) == StartsWith(word, "{") /\ EndsWith(word, "}")

\* self.entities[word[1:-1]] raises KeyError for one of the sample's words
SampleRaises(sample, ents) ==
    \E i \in 1..Len(Split(sample)) :
        /\ IsPlaceholder(Split(sample)[i])
        /\ ~DictHas(ents, Inner(Split(sample)[i]))

\* the list comprehension over sample.split()
FillSample(sample, ents) ==
    LET words == Split(sample)
    IN  [i \in 1..Len(words) |->
            IF IsPlaceholder(words[i])
            THEN DictGet(ents, Inner(words[i]))
            ELSE <<<<words[i], 0>>>>]

\* the inner loop of one intent: [list |-> what was appended, err |-> raised or not]
RECURSIVE FillSamples(_, _, _)
FillSamples(samples, ents, acc) ==
    IF samples = <<>> THEN [list |-> acc, err |-> "none"]
    ELSE IF SampleRaises(Head(samples), ents) THEN [list |-> acc, err |-> "KeyError"]
    ELSE FillSamples(Tail(samples), ents, Append(acc, FillSample(Head(samples), ents)))

\* the outer loop: [filled |-> self.filled_prompts, err |-> raised or not]
RECURSIVE SlotFillingFrom(_, _, _)
SlotFillingFrom(ints, ents, filled) ==
    IF ints = <<>> THEN [filled |-> filled, err |-> "none"]
    ELSE LET r == FillSamples(Head(ints)[2], ents, <<>>)
             f == DictSet(filled, Head(ints)[1], r.list)
         IN  IF r.err # "none" THEN [filled |-> f, err |-> r.err]
             ELSE SlotFillingFrom(Tail(ints), ents, f)

\* variant: a sample that names an unknown entity is skipped, nothing is raised
RECURSIVE SlotFilling_SkipBad(_, _, _)
SlotFilling_SkipBad(ints, ents, filled) ==
    IF ints = <<>> THEN [filled |-> filled, err |-> "none"]
    ELSE LET samples == Head(ints)[2]
             kept == SelectSeq(samples, LAMBDA x : ~SampleRaises(x, ents))
         IN  SlotFilling_SkipBad(Tail(ints), ents,
                 DictSet(filled, Head(ints)[1], FillSamples(kept, ents, <<>>).list))

SlotFilling(ints, ents, filled) == SlotFillingFrom(ints, ents, filled)

(***************************************************************************)
(* Dataset._permutation_generation.                                        *)
(***************************************************************************)
\* list(itertools.product(*sample)): the rightmost slot varies fastest, and the
\* product of no slots is the one empty tuple
RECURSIVE ProductFrom(_)
ProductFrom(slots) ==
    IF slots = <<>> THEN <<<<>>>>
    ELSE LET rest == ProductFrom(Tail(slots))
             first == Head(slots)
         IN  Flatten([i \in 1..Len(first) |->
                        [j \in 1..Len(rest) |-> <<first[i]>> \o rest[j]]])

\* variant: a sample with no slots yields no tuple at all
Product_NoEmpty(slots) == IF slots = <<>> THEN <<>> ELSE ProductFrom(slots)

Product(slots) == ProductFrom(slots)

\* variant: permutations is assigned, not extended: the last sample's product only
CategoryPermutations_Last(samples) ==
    IF samples = <<>> THEN <<>> ELSE Product(samples[Len(samples)])

\* permutations.extend(...) over the samples of one category
CategoryPermutations(samples) == Flatten([t \in 1..Len(samples) |-> Product(samples[t])])

RECURSIVE PermutationGenerationFrom(_, _)
PermutationGenerationFrom(filled, perm) ==
    IF filled = <<>> THEN perm
    ELSE PermutationGenerationFrom(Tail(filled),
             DictSet(perm, Head(filled)[1], CategoryPermutations(Head(filled)[2])))

PermutationGeneration(filled, perm) == PermutationGenerationFrom(filled, perm)

(***************************************************************************)
(* Dataset._distributed_entities_label.                                    *)
(***************************************************************************)
\* variant: the value is not split, it stays one pair
SubWords_NoSplit(word) == IF word[1] = <<>> THEN <<>> ELSE <<word>>

\* variant: only the first sub-word keeps the label, the others get 0
SubWords_FirstOnly(word) ==
    IF word[1] = <<>> THEN <<>>
    ELSE [i \in 1..Len(Split(word[1])) |->
             <<Split(word[1])[i], IF i = 1 THEN word[2] ELSE 0>>]

\* what one (value, label) pair of a sample adds to new_sample
SubWords(word) ==
    IF word[1] = <<>> THEN <<>>
    ELSE [i \in 1..Len(Split(word[1])) |-> <<Split(word[1])[i], word[2]>>]

\* new_sample of one sample
NewSample(sample) == Flatten([i \in 1..Len(sample) |-> SubWords(sample[i])])

\* category_prompts of one category
CategoryPrompts(samples) == [s \in 1..Len(samples) |-> NewSample(samples[s])]

RECURSIVE DistributedEntitiesLabelFrom(_, _)
DistributedEntitiesLabelFrom(perm, gen) ==
    IF perm = <<>> THEN gen
    ELSE DistributedEntitiesLabelFrom(Tail(perm),
             DictSet(gen, Head(perm)[1], CategoryPrompts(Head(perm)[2])))

DistributedEntitiesLabel(perm, gen) == DistributedEntitiesLabelFrom(perm, gen)

(***************************************************************************)
(* Dataset._generate_dataset.                                              *)
(***************************************************************************)
\* variant: the duplicates flag is not consulted
Shortfall_IgnoreDuplicates(dup, available, k) == Len(available) < k

\* variant: no shortfall branch, the quota is always drawn
Shortfall_Never(dup, available, k) == FALSE

\* the condition of the first branch: too few prompts and no duplicates allowed
Shortfall(dup, available, k) == ~dup /\ Len(available) < k

\* the print() of the first branch
ShortfallMessage(category, available) ==
    [text |-> "not enough intents were generated from templates",
     category |-> category, limit |-> Len(available)]

\* random.choices(population, k=k) raises IndexError on an empty population
ChoicesRaises(population, k) == population = <<>> /\ k > 0

\* every list random.choices(population, k=k) can return
Choices(population, k) ==
    IF k <= 0 THEN {<<>>}
    ELSE {[i \in 1..k |-> population[idx[i]]] : idx \in [1..k -> 1..Len(population)]}

\* the dict appended for one sample
Example(sample, category, labels) ==
    [prompts |-> Join([i \in 1..Len(sample) |-> sample[i][1]]),
     prompt_intent |-> IndexOf(DictValues(labels), category),
     word_entities |-> [i \in 1..Len(sample) |-> sample[i][2]]]

\* the inner loop: one Example per element of samples, in order
Examples(samples, category, labels) ==
    [i \in 1..Len(samples) |-> Example(samples[i], category, labels)]

\* the loop over categories; every way it can end, as
\* [dataset |-> self.dataset, out |-> what was printed, err |-> raised or not]
RECURSIVE GenerateDatasetFrom(_, _, _, _, _, _)
GenerateDatasetFrom(gen, dup, k, labels, ds, out) ==
    IF gen = <<>> THEN {[dataset |-> ds, out |-> out, err |-> "none"]}
    ELSE LET category == Head(gen)[1]
             available == Head(gen)[2]
         IN  IF Shortfall(dup, available, k)
             THEN GenerateDatasetFrom(Tail(gen), dup, k, labels,
                      ds \o Examples(available, category, labels),
                      Append(out, ShortfallMessage(category, available)))
             ELSE IF ChoicesRaises(available, k)
             THEN {[dataset |-> ds, out |-> out, err |-> "IndexError"]}
             ELSE UNION {GenerateDatasetFrom(Tail(gen), dup, k, labels,
                             ds \o Examples(samples, category, labels), out) :
                         samples \in Choices(available, k)}

\* variant: self.dataset is emptied at the start of the call
GenerateDataset_Reset(gen, dup, k, labels, ds, out) ==
    GenerateDatasetFrom(gen, dup, k, labels, <<>>, out)

GenerateDataset(gen, dup, k, labels, ds, out) ==
    GenerateDatasetFrom(gen, dup, k, labels, ds, out)

(***************************************************************************)
(* The files of the dataset directory.  A line is what readlines() gives:  *)
(* its text and the line break.  Files found in different sub-directories  *)
(* may share a stem.                                                       *)
(***************************************************************************)
EntityFiles ==
    { [dir |-> "x", stem |-> <<"e">>,
       lines |-> << <<"A", "\n">>, <<"b", " ", "c", "\n">> >>],
      [dir |-> "y", stem |-> <<"e">>,
       lines |-> << <<"#", "x", "\n">>, <<"\n">>, <<" ", "d", " ", "A", "\n">> >>],
      [dir |-> "x", stem |-> <<"f">>,
       lines |-> << <<"c", "\n">> >>],
      [dir |-> "y", stem |-> <<"f">>,
       lines |-> <<>>] }

IntentFiles ==
    { [dir |-> "x", stem |-> <<"i">>,
       lines |-> << <<"p", " ", "{", "e", "}", "\n">>, <<"\n">> >>],
      [dir |-> "y", stem |-> <<"i">>,
       lines |-> << <<"q", "\n">> >>],
      [dir |-> "x", stem |-> <<"j">>,
       lines |-> << <<"{", "e", "}", " ", "{", "f", "}", "\n">> >>],
      [dir |-> "y", stem |-> <<"j">>,
       lines |-> << <<"#", "c", "\n">>, <<"q", " ", "{", "g", "}", "\n">> >>] }

\* the lists glob can return: at most n of the files, each once, in any order
GlobLists(files, n) ==
    UNION {{l \in [1..m -> files] : \A a, b \in 1..m : a # b => l[a] # l[b]} :
           m \in 0..n}

EntityFileLists == GlobLists(EntityFiles, MaxEntityFiles)
IntentFileLists == GlobLists(IntentFiles, MaxIntentFiles)

(***************************************************************************)
(* Dataset.__init__, with the directory the object is pointed at.          *)
(***************************************************************************)
Init ==
    /\ dir_exists \in BOOLEAN
    /\ entity_files \in (IF dir_exists THEN EntityFileLists ELSE {<<>>})
    /\ intent_files \in (IF dir_exists THEN IntentFileLists ELSE {<<>>})
    /\ samples_per_intent \in 1..MaxSamples
    /\ duplicates \in BOOLEAN
    /\ entities = <<>>
    /\ entities_label = <<>>
    /\ intents = <<>>
    /\ intents_label = <<>>
    /\ filled_prompts = <<>>
    /\ premutated_prompts = <<>>
    /\ generated_prompts = <<>>
    /\ dataset = <<>>
    /\ stdout = <<>>
    /\ written = {}
    /\ raised = "none"
    /\ pc = "new"
    /\ calls = 0

(***************************************************************************)
(* Dataset.load                                                            *)
(***************************************************************************)
Load ==
    /\ pc = "new"
    /\ raised = "none"
    /\ pc' = "loaded"
    /\ IF ~dir_exists
       THEN /\ stdout' = Append(stdout, [text |-> "Dataset directory does not exist"])
            /\ UNCHANGED <<entities, entities_label, intents, intents_label>>
       ELSE /\ entities' = LoadRaw(entity_files, TRUE)
            /\ entities_label' = GenerateMapping(LoadRaw(entity_files, TRUE), 1)
            /\ intents' = LoadRaw(intent_files, FALSE)
            /\ intents_label' = GenerateMapping(LoadRaw(intent_files, FALSE), 0)
            /\ UNCHANGED stdout
    /\ UNCHANGED <<dir_exists, entity_files, intent_files, samples_per_intent,
                   duplicates, filled_prompts, premutated_prompts,
                   generated_prompts, dataset, written, raised, calls>>

(***************************************************************************)
(* Dataset.genrate_dataset: the four stages in order; an exception ends    *)
(* the call where it is raised and leaves what was assigned before it.     *)
(***************************************************************************)
GenrateDataset ==
    /\ pc = "loaded"
    /\ raised = "none"
    /\ calls < MaxCalls
    /\ LET sf == SlotFilling(intents, entities, filled_prompts)
       IN  IF sf.err # "none"
           THEN /\ filled_prompts' = sf.filled
                /\ raised' = sf.err
                /\ UNCHANGED <<premutated_prompts, generated_prompts, dataset,
                               stdout, calls>>
           ELSE LET perm == PermutationGeneration(sf.filled, premutated_prompts)
                    gen == DistributedEntitiesLabel(perm, generated_prompts)
                IN  \E r \in GenerateDataset(gen, duplicates, samples_per_intent,
                                             intents_label, dataset, stdout) :
                        /\ filled_prompts' = sf.filled
                        /\ premutated_prompts' = perm
                        /\ generated_prompts' = gen
                        /\ dataset' = r.dataset
                        /\ stdout' = r.out
                        /\ raised' = r.err
                        /\ calls' = IF r.err = "none" THEN calls + 1 ELSE calls
    /\ UNCHANGED <<dir_exists, entity_files, intent_files, samples_per_intent,
                   duplicates, entities, entities_label, intents, intents_label,
                   written, pc>>

(***************************************************************************)
(* Dataset.save and Dataset._save_maps.                                    *)
(***************************************************************************)
\* the directories save() can be pointed at: the dataset directory (also the
\* default, save_path = None) and another directory, which exists
SavePaths == {"dataset_path", "elsewhere"}
Forms == {"csv", "pkl", "json"}

IsDir(path) == IF path = "dataset_path" THEN dir_exists ELSE TRUE

\* the two files _save_maps writes
MapFiles(path) ==
    { [dir |-> path, name |-> "intent_labels.json", content |-> intents_label],
      [dir |-> path, name |-> "entity_labels.json", content |-> entities_label] }

\* the file the dataframe is written to
DatasetFile(path, form) ==
    [dir |-> path,
     name |-> IF form = "csv" THEN "dataset.csv"
              ELSE IF form = "pkl" THEN "dataset.pkl" ELSE "dataset.json",
     content |-> dataset]

Save ==
    /\ pc = "loaded"
    /\ raised = "none"
    /\ \E path \in SavePaths, form \in Forms :
          IF ~IsDir(path)
          THEN /\ raised' = "FileNotFoundError"
               /\ UNCHANGED <<written, pc>>
          ELSE /\ written' = written \cup MapFiles(path) \cup {DatasetFile(path, form)}
               /\ pc' = "saved"
               /\ UNCHANGED raised
    /\ UNCHANGED <<dir_exists, entity_files, intent_files, samples_per_intent,
                   duplicates, entities, entities_label, intents, intents_label,
                   filled_prompts, premutated_prompts, generated_prompts, dataset,
                   stdout, calls>>

Next == Load \/ GenrateDataset \/ Save

Spec == Init /\ [][Next]_vars

(***************************************************************************)
(* Properties.                                                             *)
(***************************************************************************)
\* f[1] + ... + f[n]
RECURSIVE SumTo(_, _)
SumTo(f, n) == IF n = 0 THEN 0 ELSE f[n] + SumTo(f, n - 1)

\* f[1] * ... * f[n]
RECURSIVE ProdTo(_, _)
ProdTo(f, n) == IF n = 0 THEN 1 ELSE f[n] * ProdTo(f, n - 1)

\* n_1 * ... * n_k for the slots of one filled template
SlotProduct(slots) == ProdTo([i \in 1..Len(slots) |-> Len(slots[i])], Len(slots))

\* the number of utterances the templates before template t account for
TemplateOffset(templates, t) ==
    SumTo([u \in 1..Len(templates) |-> SlotProduct(templates[u])], t - 1)

\* C1: in every Example of dataset, word_entities has as many labels as prompts
\* has whitespace-separated words.
C1_LabelsAlignWithWords ==
    \A i \in 1..Len(dataset) :
        Len(dataset[i].word_entities) = Len(Split(dataset[i].prompts))

\* C1 witness: the dataset holds an Example made from an empty entity value and an
\* Example made from a two-word entity value.
C1_Witness ==
    /\ \E i \in 1..Len(dataset) :
          /\ dataset[i].prompts = <<"p">>
          /\ dataset[i].word_entities = <<0>>
    /\ \E i \in 1..Len(dataset) :
          /\ dataset[i].prompts = <<"p", " ", "d", " ", "a">>
          /\ dataset[i].word_entities[2] > 0

\* C2: for every intent, premutated_prompts holds, template after template, the
\* n_1*...*n_k tuples of that filled template, each of k pairs, the i-th taken
\* from the i-th slot.
C2_ProductPerTemplate ==
    \A c \in 1..Len(premutated_prompts) :
        LET category == premutated_prompts[c][1]
            perms == premutated_prompts[c][2]
            templates == DictGet(filled_prompts, category)
        IN  /\ DictHas(filled_prompts, category)
            /\ Len(perms) = TemplateOffset(templates, Len(templates) + 1)
            /\ \A t \in 1..Len(templates) :
                  \A n \in 1..SlotProduct(templates[t]) :
                      LET u == perms[TemplateOffset(templates, t) + n]
                      IN  /\ Len(u) = Len(templates[t])
                          /\ \A i \in 1..Len(u) :
                                \E m \in 1..Len(templates[t][i]) :
                                    u[i] = templates[t][i][m]

\* C2 witness: an expanded intent with two templates, one of them with two slots
\* and more than one combination.
C2_Witness ==
    \E c \in 1..Len(premutated_prompts) :
        LET templates == DictGet(filled_prompts, premutated_prompts[c][1])
        IN  /\ Len(templates) >= 2
            /\ Len(premutated_prompts[c][2]) >= 3
            /\ \E t \in 1..Len(templates) :
                  Len(templates[t]) = 2 /\ SlotProduct(templates[t]) >= 2

\* the pairs the chosen values before position i of an expanded utterance give
SubWordOffset(u, i) == SumTo([j \in 1..Len(u) |-> Len(Split(u[j][1]))], i - 1)

\* C3: generated_prompts holds, at the position of every expanded utterance, the
\* whitespace-split sub-words of its chosen values in position order, each with the
\* label of its value; an empty value gives no pair.
C3_SubWordsCarryLabel ==
    /\ Len(generated_prompts) = Len(premutated_prompts)
    /\ \A c \in 1..Len(premutated_prompts) :
          LET perms == premutated_prompts[c][2]
              gens == generated_prompts[c][2]
          IN  /\ generated_prompts[c][1] = premutated_prompts[c][1]
              /\ Len(gens) = Len(perms)
              /\ \A s \in 1..Len(perms) :
                    /\ Len(gens[s]) = SubWordOffset(perms[s], Len(perms[s]) + 1)
                    /\ \A i \in 1..Len(perms[s]) :
                          /\ perms[s][i][1] = <<>> =>
                                SubWordOffset(perms[s], i + 1) = SubWordOffset(perms[s], i)
                          /\ \A w \in 1..Len(Split(perms[s][i][1])) :
                                gens[s][SubWordOffset(perms[s], i) + w] =
                                    <<Split(perms[s][i][1])[w], perms[s][i][2]>>

\* C3 witness: template "p {e}" with the first entity file, value "d a", gives the
\* words p, d, a with the labels 0, 1, 1; with the empty value it gives p alone.
C3_Witness ==
    \E c \in 1..Len(generated_prompts), d \in 1..Len(generated_prompts) :
        /\ \E s \in 1..Len(generated_prompts[c][2]) :
              generated_prompts[c][2][s] = << <<<<"p">>, 0>>, <<<<"d">>, 1>>, <<<<"a">>, 1>> >>
        /\ \E s \in 1..Len(generated_prompts[d][2]) :
              /\ generated_prompts[d][2][s] = << <<<<"p">>, 0>> >>
              /\ premutated_prompts[d][2][s] = << <<<<"p">>, 0>>, <<<<>>, 1>> >>

\* a step that is a call of genrate_dataset
GenrateCall ==
    /\ pc = "loaded" /\ pc' = "loaded"
    /\ raised = "none" /\ raised' # "FileNotFoundError"

\* a call of genrate_dataset that got as far as _generate_dataset
SamplerCall == GenrateCall /\ raised' # "KeyError"

\* the Example ex is built from the labeled utterance u of the intent category
BuiltFrom(ex, u, category) ==
    /\ Split(ex.prompts) = [i \in 1..Len(u) |-> u[i][1]]
    /\ ex.word_entities = [i \in 1..Len(u) |-> u[i][2]]
    /\ ex.prompt_intent + 1 \in 1..Len(intents_label)
    /\ intents_label[ex.prompt_intent + 1][2] = category

\* the number of Examples of list that carry the intent index idx
CountIntent(list, idx) ==
    Cardinality({i \in 1..Len(list) : list[i].prompt_intent = idx})

\* the number of categories of gen that precede the first one with no utterance
BeforeFirstEmpty(gen) ==
    IF \E c \in 1..Len(gen) : gen[c][2] = <<>>
    THEN (CHOOSE c \in 1..Len(gen) :
             gen[c][2] = <<>> /\ \A b \in 1..(c - 1) : gen[b][2] # <<>>) - 1
    ELSE Len(gen)

\* C4 as stated: with duplicates true a call appends exactly samples_per_intent
\* Examples for every intent of generated_prompts, an intent with no utterance
\* included, each built from one of the intent's utterances.
C4_Original ==
    [][(SamplerCall /\ duplicates) =>
        /\ Len(dataset') =
              Len(dataset) + samples_per_intent * Len(generated_prompts')
        /\ \A c \in 1..Len(generated_prompts'), n \in 1..samples_per_intent :
              \E s \in 1..Len(generated_prompts'[c][2]) :
                  BuiltFrom(dataset'[Len(dataset) + (c - 1) * samples_per_intent + n],
                            generated_prompts'[c][2][s], generated_prompts'[c][1])
      ]_vars

\* C4 amended: with duplicates true a call appends exactly samples_per_intent
\* Examples, each built from one of the intent's utterances, for every intent up to
\* the first intent that has no utterance; at that intent it raises IndexError and
\* appends nothing more.  With no such intent every intent gets its quota.
C4_QuotaUntilEmptyPopulation ==
    [][(SamplerCall /\ duplicates) =>
        LET gen == generated_prompts'
            done == BeforeFirstEmpty(gen)
        IN  /\ raised' = IF done = Len(gen) THEN "none" ELSE "IndexError"
            /\ Len(dataset') = Len(dataset) + samples_per_intent * done
            /\ SubSeq(dataset', 1, Len(dataset)) = dataset
            /\ \A c \in 1..done, n \in 1..samples_per_intent :
                  \E s \in 1..Len(gen[c][2]) :
                      BuiltFrom(dataset'[Len(dataset) + (c - 1) * samples_per_intent + n],
                                gen[c][2][s], gen[c][1])
      ]_vars

\* C4 witness: duplicates allowed, one intent got its quota and the next intent,
\* which has no utterance, ended the call with IndexError.
C4_Witness ==
    /\ duplicates
    /\ raised = "IndexError"
    /\ Len(dataset) = samples_per_intent
    /\ Len(generated_prompts) = 2
    /\ generated_prompts[2][2] = <<>>

HasUnknownReference ==
    \E n \in 1..Len(intents) :
        \E t \in 1..Len(intents[n][2]) :
            \E w \in 1..Len(Split(intents[n][2][t])) :
                LET word == Split(intents[n][2][t])[w]
                IN  /\ Len(word) >= 2
                    /\ word[1] = "{" /\ word[Len(word)] = "}"
                    /\ \A g \in 1..Len(entities) :
                          entities[g][1] # SubSeq(word, 2, Len(word) - 1)

\* C6: when a template names an entity that is not loaded, a call of
\* genrate_dataset ends with KeyError and leaves dataset as it was.
C6_UnknownEntityAborts ==
    [][(GenrateCall /\ HasUnknownReference) =>
          (raised' = "KeyError" /\ dataset' = dataset)]_vars

\* C6 witness: the call ended with KeyError at the second intent, after the first
\* intent had been slot-filled, and dataset is empty.
C6_Witness ==
    /\ raised = "KeyError"
    /\ Len(filled_prompts) = 2
    /\ filled_prompts[1][2] # <<>>
    /\ dataset = <<>>

\* C7 as stated: with no dataset directory the run is aborted and nothing is
\* produced: dataset stays empty, save is not completed and writes no file.
C7_Original ==
    ~dir_exists => (dataset = <<>> /\ written = {} /\ pc # "saved")

\* C8 as stated: an empty template contributes no expanded utterance: an intent's
\* list holds only the products of its templates that have at least one token.
C8_Original ==
    \A c \in 1..Len(premutated_prompts) :
        LET templates == DictGet(filled_prompts, premutated_prompts[c][1])
        IN  Len(premutated_prompts[c][2]) =
                SumTo([t \in 1..Len(templates) |->
                          IF templates[t] = <<>> THEN 0 ELSE SlotProduct(templates[t])],
                      Len(templates))

\* C8 amended: every empty template of an expanded intent contributes exactly one
\* expanded utterance, the empty tuple, and the labeled utterance at its position
\* is empty too.
C8_EmptyTemplateGivesOne ==
    \A n \in 1..Len(intents) :
        DictHas(premutated_prompts, intents[n][1]) =>
            LET perms == DictGet(premutated_prompts, intents[n][1])
                gens == DictGet(generated_prompts, intents[n][1])
            IN  /\ Cardinality({s \in 1..Len(perms) : perms[s] = <<>>}) =
                      Cardinality({t \in 1..Len(intents[n][2]) :
                                      Split(intents[n][2][t]) = <<>>})
                /\ Len(gens) = Len(perms)
                /\ \A s \in 1..Len(perms) : perms[s] = <<>> => gens[s] = <<>>

\* C8 witness: an intent with a blank template was expanded, and the Example drawn
\* from the blank template, with no text and no label, is in dataset.
C8_Witness ==
    /\ \E n \in 1..Len(intents) :
          /\ \E t \in 1..Len(intents[n][2]) : Split(intents[n][2][t]) = <<>>
          /\ DictHas(premutated_prompts, intents[n][1])
    /\ \E i \in 1..Len(dataset) :
          dataset[i].prompts = <<>> /\ dataset[i].word_entities = <<>>

\* C9 as stated: after load the id of every value of a group is the key of the
\* group's name in entities_label, and every non-zero label of an Example is a key
\* of entities_label.
C9_Original ==
    /\ \A g \in 1..Len(entities) :
          \A v \in 1..Len(entities[g][2]) :
              /\ DictHas(entities_label, entities[g][2][v][2])
              /\ DictGet(entities_label, entities[g][2][v][2]) = entities[g][1]
    /\ \A i \in 1..Len(dataset) :
          \A w \in 1..Len(dataset[i].word_entities) :
              dataset[i].word_entities[w] # 0 =>
                  DictHas(entities_label, dataset[i].word_entities[w])

\* C10: a call of genrate_dataset keeps every Example of dataset at its index and
\* only appends; filled_prompts, premutated_prompts and generated_prompts hold one
\* entry per intent and a later call leaves them as the call before left them; so
\* with duplicates true, after n calls every intent has n * samples_per_intent
\* Examples.
C10_AppendOnly ==
    /\ [][GenrateCall =>
            /\ Len(dataset') >= Len(dataset)
            /\ SubSeq(dataset', 1, Len(dataset)) = dataset
            /\ raised' = "none" =>
                  /\ DictKeys(filled_prompts') = DictKeys(intents)
                  /\ DictKeys(premutated_prompts') = DictKeys(intents)
                  /\ DictKeys(generated_prompts') = DictKeys(intents)
                  /\ \A n \in 1..Len(intents) :
                        Len(filled_prompts'[n][2]) = Len(intents[n][2])
                  /\ calls >= 1 =>
                        /\ filled_prompts' = filled_prompts
                        /\ premutated_prompts' = premutated_prompts
                        /\ generated_prompts' = generated_prompts
         ]_vars
    /\ []((duplicates /\ raised = "none") =>
            \A n \in 1..Len(intents) :
                CountIntent(dataset, n - 1) = calls * samples_per_intent)

\* C10 witness: two calls with duplicates true have put twice the quota of every
\* intent into dataset.
C10_Witness ==
    /\ duplicates
    /\ calls = 2
    /\ raised = "none"
    /\ Len(intents) = 2
    /\ Len(dataset) = 2 * samples_per_intent * Len(intents)

====
